---- MODULE Spec2Model ----
(***************************************************************************)
(* Model of the transcription pipeline of ai_etl_framework:                *)
(*   - TaskStatus / TranscriptionTask   (extractor/models)                 *)
(*   - TranscriptionManager             (youtube_transcription/manager.py) *)
(*   - the four stage handlers, seen through their effects on the task     *)
(*     record and on the object store                                      *)
(*   - RateLimit                        (audio_transcriber.py)             *)
(*                                                                         *)
(* Specifications:                                                         *)
(*   Spec         the manager with its workers and its callers             *)
(*   FairSpec     Spec with the fairness of the worker and caller threads  *)
(*   SpecPipeline one task through the four stages, every failure possible *)
(*   SpecClient   the pipeline plus callers invoking update_status directly*)
(*   SpecTask     one task record under arbitrary method calls, with time  *)
(*   SpecRL       the rate limiter under concurrent can_request calls      *)
(***************************************************************************)
EXTENDS Naturals, Integers, Sequences, FiniteSets, TLC

\* ------------------------------------------------------------------ bounds
Urls == {"u1", "u2"}
Callers == {"c1", "c2"}
Threads == {"a", "b"}

max_workers == 2
max_queue_size == 1
MaxCalls == 3
MaxResumes == 1
MaxChunks == 2
MaxTime == 3
MaxErrors == 2
MaxWaveChunks == 6
MaxIndex == 1001
MaxDuration == 9
MaxChunkDuration == 3
MaxGap == 3
MaxAdmit == 3
window_seconds == 2
max_requests == 1

VARIABLES
    workers_started,   \* TranscriptionManager.workers_started
    worker,            \* the worker threads: sequence of [pc, stage, task, hist]
    tasks,             \* TranscriptionManager.tasks: the registry, a list of task ids
    task,              \* every TranscriptionTask created so far, by id
    store,             \* the object store: the set of object paths present
    merged_text,       \* what transcripts/merged_transcript.txt holds: <<task id, text>>
    task_queue,        \* TranscriptionManager.task_queue
    unfinished_tasks,  \* queue.Queue.unfinished_tasks (put +1, task_done -1)
    shutdown_event,    \* TranscriptionManager.shutdown_event
    lock,              \* TranscriptionManager.lock: "free" or the caller holding it
    call,              \* per caller thread: [pc, op, url, tid, ret] of its current/last call
    ncalls,            \* number of calls started so far
    resumes,           \* number of those that are resume_task calls
    enqueued,          \* per url: number of tasks add_task has put in the queue
    dupseen,           \* per url: some add_task was refused as a duplicate
    fullhit,           \* per url: some add_task met queue.Full
    now,               \* the wall clock, datetime.now()
    last,              \* the last direct task-method call and what it returned
    rl_requests,       \* RateLimit.requests
    rl,                \* per thread in can_request: [pc, now]
    admitted,          \* real times at which can_request admitted a request
    posted,            \* real times at which a chunk attempt issued its POST
    faults,            \* the failures the external collaborators show in this run
    media,             \* per url: the number of chunks its audio is planned into
    script,            \* per chunk: the status codes the transcription endpoint gives
                       \* to the successive requests for it (used with fault "script")
    stream,            \* the stream_status generator: its position and its locals
    events,            \* the StreamingTaskResponse events it has yielded so far
    held,              \* the task's RLock: the atomic() block a thread is inside, and
                       \* the time of the last mutation that set the status
    response,          \* a to_response() call being evaluated by a reader thread
    waves,             \* a transcribe_chunks_async call: its position, the start index of
                       \* its batch, the state of each chunk's coroutine, its result
    index_pair,        \* two chunk indexes whose artifact names are being compared
    split              \* a split_audio call: the durations, the loop index, chunks_info

mgrVars    == <<workers_started, tasks, task_queue, unfinished_tasks, shutdown_event, lock>>
callVars   == <<call, ncalls, resumes, enqueued, dupseen, fullhit>>
rlVars     == <<rl_requests, rl, admitted, posted>>
envVars    == <<faults, media, script>>
streamVars == <<stream, events>>
readVars   == <<held, response>>
splitVars  == <<index_pair, split>>
otherVars  == <<now, last, rlVars, envVars, splitVars, waves, readVars, streamVars>>
vars       == <<workers_started, worker, tasks, task, store, merged_text, task_queue, unfinished_tasks,
                shutdown_event, lock, call, ncalls, resumes, enqueued, dupseen, fullhit, now,
                last,
                rl_requests, rl, admitted, posted, faults, media, script, stream, events,
                held, response, waves, index_pair, split>>

\* ------------------------------------------------------------ TaskStatus
TaskStatus == {"Pending", "Downloading", "Splitting", "Transcribing", "Merging",
               "Completed", "Failed", "Cancelled", "Paused"}

transitions(s) ==
    CASE s = "Pending"      -> {"Downloading", "Failed", "Cancelled"}
      [] s = "Downloading"  -> {"Splitting", "Failed", "Paused", "Cancelled"}
      [] s = "Splitting"    -> {"Transcribing", "Failed", "Paused", "Cancelled"}
      [] s = "Transcribing" -> {"Merging", "Failed", "Paused", "Cancelled"}
      [] s = "Merging"      -> {"Completed", "Failed", "Paused", "Cancelled"}
      [] s = "Completed"    -> {"Failed"}
      [] s = "Failed"       -> {"Pending"}
      [] s = "Cancelled"    -> {"Pending"}
      [] s = "Paused"       -> {"Pending", "Failed", "Cancelled"}
      [] OTHER              -> {}

can_transition_to_always(s, new) == TRUE

can_transition_to(s, new) == new \in transitions(s)

\* ------------------------------------------------------ TranscriptionTask
NewTask(u) ==
    [url |-> u, status |-> "Pending", updated_at |-> now, errors |-> <<>>,
     progress |-> 0, temp_video_path |-> FALSE, chunks_info |-> {}, failed_chunks |-> {},
     merged_transcript_path |-> FALSE, processing_completed_at |-> FALSE,
     total_chunks |-> 0, chunk_count |-> 0,
     word_count |-> 0, confidence_scores |-> <<>>]

\* leaving a `with task.atomic()` block: updated_at = datetime.now()
atomic(r) == [r EXCEPT !.updated_at = now]

update_status(r, new) ==
    atomic(IF can_transition_to(r.status, new) THEN [r EXCEPT !.status = new] ELSE r)

update_status_ret(r, new) == can_transition_to(r.status, new)

\* an add_error that records nothing
add_error_naming_lost(r, msg, paths) == atomic(r)

\* an add_error that keeps only the newest error
add_error_naming_replacing(r, msg, paths) ==
    atomic([r EXCEPT !.errors = <<[stage |-> r.status, message |-> msg, paths |-> paths]>>])

\* add_error with a message that interpolates the chunk paths `paths`
add_error_naming(r, msg, paths) ==
    atomic([r EXCEPT !.errors = Append(@, [stage |-> r.status, message |-> msg,
                                           paths |-> paths])])

add_error(r, msg) == add_error_naming(r, msg, {})

RECURSIVE add_errors(_, _)
add_errors(r, msgs) ==
    IF msgs = <<>> THEN r ELSE add_errors(add_error(r, Head(msgs)), Tail(msgs))

\* progress is kept in tenths of a percent: 999 is 99.9, 1000 is 100.0
FullProgress == 1000
AlmostFull   == 999

Min(a, b) == IF a < b THEN a ELSE b
Max(a, b) == IF a > b THEN a ELSE b

\* task.update_progress(progress): stats.progress = min(max(progress, 0.0), 100.0)
update_progress(r, p) == atomic([r EXCEPT !.progress = Min(Max(p, 0), FullProgress)])

\* a can_resume that only knows Failed
can_resume_failed_only(r) == r.status = "Failed"

can_resume(r) == r.status \in {"Failed", "Cancelled", "Paused"}

\* n copies of one message
Repeat(msg, n) == [i \in 1..n |-> msg]

\* ------------------------------------------------------------ object store
VideoMetaPath(t)  == <<t, "metadata", "video_metadata.json", 0>>
AudioPath(t)      == <<t, "audio", "wav", 0>>
ChunkPath(t, i)   == <<t, "chunks", "chunk", i>>
JsonPath(t, i)    == <<t, "chunks", "chunk.json", i>>
TxtPath(t, i)     == <<t, "chunks", "chunk.txt", i>>
ManifestPath(t)   == <<t, "chunks", "chunks_manifest.json", 0>>
MergedPath(t)     == <<t, "transcripts", "merged_transcript.txt", 0>>
MergedMetaPath(t) == <<t, "transcripts", "merged_metadata.json", 0>>

\* ---------------------------------------------------------------- helpers
Pipeline == <<"Downloading", "Splitting", "Transcribing", "Merging", "Completed">>

NextStage(s) ==
    CASE s = "Downloading"  -> "Splitting"
      [] s = "Splitting"    -> "Transcribing"
      [] s = "Transcribing" -> "Merging"
      [] s = "Merging"      -> "Completed"
      [] OTHER              -> "Completed"

\* no thread is inside atomic(); the status was set at construction
NotHeld == [pc |-> "free", task |-> 0, set_at |-> 0]

\* no to_response() call has been made
NoResponse == [pc |-> "idle", status |-> "None", set_at |-> 0, updated_at |-> 0]

\* split_audio has not been called
NoSplit == [pc |-> "off", total_duration |-> 0, chunk_duration |-> 0, num_chunks |-> 0,
            i |-> 0, chunks_info |-> <<>>]

\* transcribe_chunks_async has not been called; no chunk coroutine exists
NoWaves == [pc |-> "start", i |-> 0, op |-> [k \in 1..MaxWaveChunks |-> "none"], ret |-> "none"]

\* no stream_status generator has been started
NoStream == [pc |-> "off", task |-> 0, current_status |-> "None", previous_status |-> "None",
             previous_progress |-> 0, overall_progress |-> 0, error |-> FALSE]

IdleWorker == [pc |-> "loop", stage |-> "none", task |-> 0, hist |-> <<>>]
IdleCall   == [pc |-> "idle", op |-> "none", url |-> "none", tid |-> 0, ret |-> "none"]
Returned(op, ret) == [pc |-> "idle", op |-> op, url |-> "none", tid |-> 0, ret |-> ret]

Remove(seq, x) == SelectSeq(seq, LAMBDA y : y # x)

Registered(u) == \E i \in DOMAIN tasks : task[tasks[i]].url = u

\* ------------------------------------------------------------------- Init
AllFaults == {"fail_info", "fail_metadata", "fail_audio", "probe", "cut", "store",
              "api", "partial", "merge"}

\* the manager with the tasks `ts` created, those of `reg` in its registry and
\* those of `q` waiting in its queue
InitQueued(f, m, ts, sc, reg, q) ==
    /\ faults = f
    /\ media = m
    /\ script = sc
    /\ workers_started = FALSE
    /\ worker = <<>>
    /\ tasks = reg
    /\ task = ts
    /\ store = {}
    /\ merged_text = {}
    /\ task_queue = q
    /\ unfinished_tasks = Len(q)
    /\ shutdown_event = FALSE
    /\ lock = "free"
    /\ call = [c \in Callers |-> IdleCall]
    /\ ncalls = 0
    /\ resumes = 0
    /\ enqueued = [u \in Urls |-> 0]
    /\ dupseen = [u \in Urls |-> FALSE]
    /\ fullhit = [u \in Urls |-> FALSE]
    /\ now = 0
    /\ last = [op |-> "none", ret |-> FALSE]
    /\ rl_requests = <<>>
    /\ rl = [c \in Threads |-> [pc |-> "idle", now |-> 0, ok |-> FALSE, wait |-> 0]]
    /\ admitted = <<>>
    /\ posted = <<>>
    /\ stream = NoStream
    /\ events = <<>>
    /\ held = NotHeld
    /\ response = NoResponse
    /\ waves = NoWaves
    /\ index_pair = [i |-> 0, j |-> 1]
    /\ split = NoSplit

\* the manager as constructed: no task, an empty queue
InitScripted(f, m, ts, sc) == InitQueued(f, m, ts, sc, <<>>, <<>>)

InitWith(f, m, ts) == InitScripted(f, m, ts, <<>>)

\* --------------------------------------------- TranscriptionManager: workers
\* _start_workers, without its workers_started guard
start_workers_unguarded ==
    /\ worker' = worker \o [i \in 1..max_workers |-> IdleWorker]
    /\ workers_started' = TRUE

\* _start_workers: called by __init__; a second call starts nothing
start_workers ==
    IF workers_started
    THEN UNCHANGED <<worker, workers_started>>
    ELSE /\ worker' = worker \o [i \in 1..max_workers |-> IdleWorker]
         /\ workers_started' = TRUE

StartWorkers ==
    /\ lock = "free"
    /\ start_workers
    /\ UNCHANGED <<tasks, task, store, merged_text, task_queue, unfinished_tasks, shutdown_event, lock,
                   callVars, otherVars>>

\* ------------------------------------------- TranscriptionManager: add_task
\* a duplicate check that never finds the url
url_exists_never(u) == FALSE

\* a duplicate test that overlooks the tasks that have finished
url_exists_unfinished(u) ==
    \E i \in DOMAIN tasks : task[tasks[i]].url = u
                              /\ task[tasks[i]].status \notin {"Failed", "Completed"}

\* any(task.url == url for task in self.tasks)
url_exists(u) == Registered(u)

\* a roll-back that forgets to remove the task
rollback_tasks_keep(tid) == tasks

\* self.tasks.remove(task) after queue.Full
rollback_tasks(tid) == Remove(tasks, tid)

\* add_task, first locked section: duplicate check, creation, registration
SubmitLock(c, u) ==
    /\ workers_started
    /\ lock = "free"
    /\ call[c].pc = "idle"
    /\ ncalls < MaxCalls
    /\ ncalls' = ncalls + 1
    /\ IF url_exists(u)
       THEN /\ call' = [call EXCEPT ![c] = Returned("add_task", "nil")]
            /\ dupseen' = [dupseen EXCEPT ![u] = TRUE]
            /\ UNCHANGED <<tasks, task>>
       ELSE /\ task' = Append(task, NewTask(u))
            /\ tasks' = Append(tasks, Len(task) + 1)
            /\ call' = [call EXCEPT ![c] = [pc |-> "put", op |-> "add_task", url |-> u,
                                            tid |-> Len(task) + 1, ret |-> "none"]]
            /\ UNCHANGED dupseen
    /\ UNCHANGED <<workers_started, worker, store, merged_text, task_queue, unfinished_tasks,
                   shutdown_event, lock, resumes, enqueued, fullhit, otherVars>>

\* add_task: self.task_queue.put(task, block=False), outside the lock
SubmitPut(c) ==
    /\ call[c].pc = "put"
    /\ IF Len(task_queue) < max_queue_size
       THEN /\ task_queue' = Append(task_queue, call[c].tid)
            /\ unfinished_tasks' = unfinished_tasks + 1
            /\ enqueued' = [enqueued EXCEPT ![call[c].url] = @ + 1]
            /\ call' = [call EXCEPT ![c] = Returned("add_task", "task")]
            /\ UNCHANGED fullhit
       ELSE /\ call' = [call EXCEPT ![c].pc = "rollback"]
            /\ fullhit' = [fullhit EXCEPT ![call[c].url] = TRUE]
            /\ UNCHANGED <<task_queue, unfinished_tasks, enqueued>>
    /\ UNCHANGED <<workers_started, worker, tasks, task, store, merged_text, shutdown_event, lock,
                   ncalls, resumes, dupseen, otherVars>>

\* add_task, except queue.Full: second locked section, then return None
SubmitRollback(c) ==
    /\ call[c].pc = "rollback"
    /\ lock = "free"
    /\ tasks' = rollback_tasks(call[c].tid)
    /\ call' = [call EXCEPT ![c] = Returned("add_task", "nil")]
    /\ UNCHANGED <<workers_started, worker, task, store, merged_text, task_queue, unfinished_tasks,
                   shutdown_event, lock, ncalls, resumes, enqueued, dupseen, fullhit,
                   otherVars>>

\* ---------------------------------------- TranscriptionManager: resume_task
\* resume_task up to the queue put; the lock stays held across the blocking put
ResumeTask(c, t) ==
    /\ workers_started
    /\ lock = "free"
    /\ call[c].pc = "idle"
    /\ ncalls < MaxCalls
    /\ ncalls' = ncalls + 1
    /\ resumes < MaxResumes
    /\ resumes' = resumes + 1
    /\ t \in DOMAIN task
    /\ IF can_resume(task[t])
       THEN /\ task' = [task EXCEPT ![t] = update_status(@, "Pending")]
            /\ IF update_status_ret(task[t], "Pending")
               THEN /\ lock' = c
                    /\ call' = [call EXCEPT ![c] = [pc |-> "r_put", op |-> "resume_task",
                                   url |-> task[t].url, tid |-> t, ret |-> "none"]]
               ELSE /\ lock' = lock
                    /\ call' = [call EXCEPT ![c] = Returned("resume_task", "false")]
       ELSE /\ call' = [call EXCEPT ![c] = Returned("resume_task", "false")]
            /\ UNCHANGED <<task, lock>>
    /\ UNCHANGED <<workers_started, worker, tasks, store, merged_text, task_queue, unfinished_tasks,
                   shutdown_event, enqueued, dupseen, fullhit, otherVars>>

\* resume_task: self.task_queue.put(task) blocks until the queue has room
ResumePut(c) ==
    /\ call[c].pc = "r_put"
    /\ Len(task_queue) < max_queue_size
    /\ task_queue' = Append(task_queue, call[c].tid)
    /\ unfinished_tasks' = unfinished_tasks + 1
    /\ lock' = "free"
    /\ call' = [call EXCEPT ![c] = Returned("resume_task", "true")]
    /\ UNCHANGED <<workers_started, worker, tasks, task, store, merged_text, shutdown_event,
                   ncalls, resumes, enqueued, dupseen, fullhit, otherVars>>

\* ------------------------------------------- TranscriptionManager: shutdown
\* shutdown: self.shutdown_event.set()
Shutdown(c) ==
    /\ workers_started
    /\ ~shutdown_event
    /\ call[c].pc = "idle"
    /\ shutdown_event' = TRUE
    /\ call' = [call EXCEPT ![c] = [pc |-> "sd_join", op |-> "shutdown", url |-> "none",
                                    tid |-> 0, ret |-> "none"]]
    /\ UNCHANGED <<workers_started, worker, tasks, task, store, merged_text, task_queue,
                   unfinished_tasks, lock, ncalls, resumes, enqueued, dupseen, fullhit,
                   otherVars>>

\* shutdown: task_queue.join() returns once unfinished_tasks is 0; the worker joins
\* have a timeout and the executor has no work, so the rest cannot block
ShutdownJoin(c) ==
    /\ call[c].pc = "sd_join"
    /\ unfinished_tasks = 0
    /\ call' = [call EXCEPT ![c] = Returned("shutdown", "returned")]
    /\ UNCHANGED <<workers_started, worker, tasks, task, store, merged_text, task_queue,
                   unfinished_tasks, shutdown_event, lock, ncalls, resumes, enqueued,
                   dupseen, fullhit, otherVars>>

\* --------------------------------------------- TranscriptionManager: _worker
SetWorker(w, rec) == worker' = [worker EXCEPT ![w] = rec]

\* while not self.shutdown_event.is_set()
WorkerLoop(w) ==
    /\ w \in DOMAIN worker
    /\ worker[w].pc = "loop"
    /\ SetWorker(w, [worker[w] EXCEPT !.pc = IF shutdown_event THEN "exited" ELSE "get"])
    /\ UNCHANGED <<mgrVars, task, store, merged_text, callVars, otherVars>>

\* self.task_queue.get(timeout=1): a task, or queue.Empty and `continue`
WorkerGet(w) ==
    /\ w \in DOMAIN worker
    /\ worker[w].pc = "get"
    /\ IF task_queue # <<>>
       THEN /\ task_queue' = Tail(task_queue)
            /\ SetWorker(w, [pc |-> "set", stage |-> "Downloading",
                             task |-> Head(task_queue), hist |-> <<>>])
       ELSE /\ SetWorker(w, [worker[w] EXCEPT !.pc = "loop"])
            /\ UNCHANGED task_queue
    /\ UNCHANGED <<workers_started, tasks, unfinished_tasks, shutdown_event, lock, task,
                   store, merged_text, callVars, otherVars>>

\* _process_task_async: `if not task.update_status(<stage>): raise RuntimeError`
WorkerSetStage(w) ==
    /\ w \in DOMAIN worker
    /\ worker[w].pc = "set"
    /\ LET t == worker[w].task
           s == worker[w].stage
       IN  /\ task' = [task EXCEPT ![t] = update_status(@, s)]
           /\ IF update_status_ret(task[t], s)
              THEN SetWorker(w, [worker[w] EXCEPT
                                   !.pc = IF s = "Completed" THEN "stamp" ELSE "run",
                                   !.hist = Append(@, s)])
              ELSE SetWorker(w, [worker[w] EXCEPT !.pc = "except"])
    /\ UNCHANGED <<mgrVars, store, merged_text, callVars, otherVars>>

\* what a stage handler leaves behind: the task record, the store, and whether it
\* reported success
StageWrote(w, ok, rec, objs, texts) ==
    /\ task' = [task EXCEPT ![worker[w].task] = rec]
    /\ store' = store \cup objs
    /\ merged_text' = texts
    /\ SetWorker(w, IF ok THEN [worker[w] EXCEPT !.pc = "set", !.stage = NextStage(@)]
                          ELSE [worker[w] EXCEPT !.pc = "fail"])
    /\ UNCHANGED <<mgrVars, callVars, otherVars>>

\* a manager that goes on whatever the stage handler returned
StageDone_unchecked(w, ok, rec, objs) == StageWrote(w, TRUE, rec, objs, merged_text)

\* a stage handler that leaves merged_transcript.txt as it is
StageDone(w, ok, rec, objs) == StageWrote(w, ok, rec, objs, merged_text)

\* a download that reports success without having stored the audio
download_objects_lost(t, outcome) == {}

\* the objects download_video has written when it ends with `outcome`
download_objects(t, outcome) ==
    CASE outcome = "ok"         -> {VideoMetaPath(t), AudioPath(t)}
      [] outcome = "fail_audio" -> {VideoMetaPath(t)}
      [] OTHER                  -> {}

\* the values the progress hook can have left in stats.progress when download_video
\* ends: 100.0 once yt-dlp reported 'finished', the old value if it never ran
download_progress(r, outcome) ==
    CASE outcome = "ok"         -> {FullProgress}
      [] outcome = "fail_audio" -> {r.progress, FullProgress}
      [] OTHER                  -> {r.progress}

\* downloader.download_video(task)
DownloadVideo(w) ==
    /\ w \in DOMAIN worker
    /\ worker[w].pc = "run"
    /\ worker[w].stage = "Downloading"
    /\ \E outcome \in {"ok"} \cup ({"fail_info", "fail_metadata", "fail_audio"} \cap faults),
          hook_raised \in {FALSE} \cup {"hook" \in faults} :
         LET t == worker[w].task
             \* yt-dlp ran and the progress hook raised: it records the error and
             \* the download goes on
             r == IF hook_raised /\ outcome \in {"ok", "fail_audio"}
                  THEN add_error(task[t], "Error in progress hook")
                  ELSE task[t]
             rec == CASE outcome = "ok" -> atomic([atomic(r) EXCEPT !.temp_video_path = TRUE])
                      [] outcome = "fail_info" -> add_error(r, "download_video")
                      [] outcome = "fail_metadata" ->
                            add_errors(atomic(r), <<"Failed to save metadata", "download_video">>)
                      [] OTHER -> add_error(atomic(r), "download_video")
         IN  \E p \in download_progress(r, outcome) :
               StageDone(w, outcome = "ok", [rec EXCEPT !.progress = p],
                         download_objects(t, outcome))

\* the greatest element of a non-empty set of chunk indexes
Last(S) == CHOOSE i \in S : \A j \in S : j <= i

\* stats.progress after the chunks `created` of num_chunks were cut and stored:
\* update_progress(min((i + 1) / num_chunks * 100, 99.9)) after each of them
split_progress(r, created, num_chunks) ==
    IF created = {} THEN r.progress
    ELSE Min(((Last(created) + 1) * FullProgress) \div num_chunks, AlmostFull)

\* a manifest that counts the chunks that were planned
manifest_total_chunks_planned(num_chunks, created) == num_chunks

\* "total_chunks": len(chunks_info), of the chunks appended in the loop
manifest_total_chunks(num_chunks, created) == Cardinality(created)

\* splitter.split_audio(task), then the manager's own write of chunks_info
SplitAudio(w) ==
    /\ w \in DOMAIN worker
    /\ worker[w].pc = "run"
    /\ worker[w].stage = "Splitting"
    /\ LET t == worker[w].task
           r == task[t]
           num_chunks == media[r.url]
           planned == 0..(num_chunks - 1)
       IN  \/ \* no audio path, audio not fetched, or duration not probed
              /\ "probe" \in faults
              /\ StageDone(w, FALSE, add_error(r, "split_audio"), {})
           \/ \* the loop ends: every chunk was cut and stored, or skipped with an error
              \E created \in (IF "cut" \in faults THEN SUBSET planned ELSE {planned}) :
                LET cut == [add_errors(atomic(r),
                               Repeat("Failed to create chunk", num_chunks - Cardinality(created)))
                              EXCEPT !.progress = split_progress(r, created, num_chunks)]
                    objs == {ChunkPath(t, i) : i \in created}
                IN  IF created = {}
                    THEN StageDone(w, FALSE, add_error(cut, "No chunks were created"), {})
                    ELSE \/ StageDone(w, TRUE,
                                      atomic([cut EXCEPT
                                                !.chunks_info = created,
                                                !.total_chunks =
                                                    manifest_total_chunks(num_chunks, created),
                                                !.chunk_count = Cardinality(created)]),
                                      objs \cup {ManifestPath(t)})
                         \/ \* save_json of the manifest raised
                            /\ "store" \in faults
                            /\ StageDone(w, FALSE, add_error(cut, "Error splitting audio"), objs)
           \/ \* save_file of chunk k raised: the chunks stored before it stay
              /\ "store" \in faults
              /\ \E k \in planned :
                 \E put \in (IF "cut" \in faults THEN SUBSET (0..(k - 1)) ELSE {0..(k - 1)}) :
                   LET cut == [add_errors(atomic(r),
                                  Repeat("Failed to create chunk", k - Cardinality(put)))
                                 EXCEPT !.progress = split_progress(r, put, num_chunks)]
                   IN  StageDone(w, FALSE, add_error(cut, "Error splitting audio"),
                                 {ChunkPath(t, i) : i \in put})

\* ----------------------------------------- AudioTranscriber: one chunk
max_tries == 3
StatusCodes == {200, 429, 500}

\* the try block of transcribe_chunk_async when the endpoint answers `code`: a 429
\* raises RuntimeError, raise_for_status raises on any other non-2xx answer
chunk_request(code) == IF code = 200 THEN "True" ELSE "raise"

\* transcribe_chunk_async without its decorator: `except Exception` turns whatever
\* the try block raised into add_error and `return False`
transcribe_chunk_body(code) ==
    IF chunk_request(code) = "raise" THEN "False" ELSE chunk_request(code)

\* backoff.on_exception(max_tries=3): calls the body again while it raises
RECURSIVE on_exception(_, _)
on_exception(responses, k) ==
    LET res == transcribe_chunk_body(responses[k])
    IN  IF res = "raise" /\ k < max_tries
        THEN on_exception(responses, k + 1)
        ELSE [ret |-> res, tries |-> k]

\* the decorated transcribe_chunk_async against an endpoint that answers the
\* successive requests by `responses`: what it returns and how many requests it made
transcribe_chunk_async(responses) == on_exception(responses, 1)

\* the chunks of `chunks` the scripted endpoint gets transcribed
scripted_done(chunks) ==
    {i \in chunks : transcribe_chunk_async(script[i]).ret = "True"}

\* len(text_content.split()): the text of chunk i is the one token i
word_count_of(i) == Len(<<i>>)

RECURSIVE sum_words(_)
sum_words(S) ==
    IF S = {} THEN 0
    ELSE LET i == CHOOSE x \in S : TRUE IN word_count_of(i) + sum_words(S \ {i})

\* the chunks of S in the order in which their coroutines are awaited
RECURSIVE in_order(_)
in_order(S) ==
    IF S = {} THEN <<>>
    ELSE LET i == CHOOSE x \in S : \A y \in S : x <= y IN <<i>> \o in_order(S \ {i})

\* transcribe_chunk_async of every chunk of `done`, after its two files are saved:
\* word_count = (word_count or 0) + len(text_content.split()), and when the
\* response carries a confidence, confidence_scores.append(result['confidence'])
count_transcribed(r, done) ==
    IF done = {} THEN r
    ELSE atomic([r EXCEPT !.word_count = @ + sum_words(done),
                          !.confidence_scores = IF "confidence" \in faults
                                                THEN @ \o in_order(done) ELSE @])

\* transcriber.transcribe_all_chunks(task)
TranscribeAllChunks(w) ==
    /\ w \in DOMAIN worker
    /\ worker[w].pc = "run"
    /\ worker[w].stage = "Transcribing"
    /\ LET t == worker[w].task
           r == task[t]
           chunks == r.chunks_info
       IN  IF chunks = {}
           THEN StageDone(w, FALSE,
                          [add_error(r, "Transcription failed: No chunks found")
                             EXCEPT !.failed_chunks = r.failed_chunks], {})
           ELSE \E done \in (IF "api" \in faults THEN SUBSET chunks
                             ELSE IF "script" \in faults THEN {scripted_done(chunks)}
                             ELSE {chunks}) :
                \E part \in (IF "partial" \in faults THEN SUBSET (chunks \ done) ELSE {{}}) :
                  \* done: transcribed and stored; part: the .txt write raised after the
                  \* .json. Every chunk that fails adds one error (a failed preprocessing
                  \* adds its own before the chunk returns False)
                  LET failed == chunks \ done
                      objs == {JsonPath(t, i) : i \in done \cup part}
                                 \cup {TxtPath(t, i) : i \in done}
                      \* one batch holds every chunk: min(len(batch) / total * 100, 99.9)
                      each == update_progress(
                                  add_errors(count_transcribed(r, done),
                                             Repeat("Transcription error",
                                                    Cardinality(failed))), AlmostFull)
                  IN  IF failed = {}
                      THEN StageDone(w, TRUE, each, objs)
                      ELSE StageDone(w, FALSE,
                                     [add_error(each, "Failed to transcribe chunks")
                                        EXCEPT !.failed_chunks = failed], objs)

\* a text is a sequence of tokens: the text of chunk i is the token i, and NewLine
\* is the "\n" that join puts between two texts
NewLine == -1

\* the order of the names: "chunk_000_..." < "chunk_001_..." < "chunks_manifest.json"
name_leq(f, g) == IF f[3] = g[3] THEN f[4] <= g[4] ELSE f[3] = "chunk.json"

\* sorted(json_files)
RECURSIVE sorted(_)
sorted(files) ==
    IF files = {} THEN <<>>
    ELSE LET f == CHOOSE x \in files : \A g \in files : name_leq(x, g)
         IN  <<f>> \o sorted(files \ {f})

\* chunk_data.get('transcription', {}).get('text', ''): the manifest has no
\* 'transcription' key, so it gives the empty text
text_of(f) == IF f[3] = "chunk.json" THEN <<f[4]>> ELSE <<>>

\* "\n".join(merged_text)
RECURSIVE join(_)
join(texts) ==
    IF texts = <<>> THEN <<>>
    ELSE IF Len(texts) = 1 THEN texts[1]
    ELSE texts[1] \o <<NewLine>> \o join(Tail(texts))

\* merged_text_content: one text per object of sorted(json_files)
merged_text_content(files) ==
    LET names == sorted(files) IN join([k \in DOMAIN names |-> text_of(names[k])])

\* save_file(task.id, "transcripts", text_bytes, "merged_transcript.txt")
save_merged(t, text) == {p \in merged_text : p[1] # t} \cup {<<t, text>>}

\* transcriber.merge_transcripts(task)
MergeTranscripts(w) ==
    /\ w \in DOMAIN worker
    /\ worker[w].pc = "run"
    /\ worker[w].stage = "Merging"
    /\ LET t == worker[w].task
           r == task[t]
           json_files == {p \in store : p[1] = t /\ p[2] = "chunks"
                             /\ p[3] \in {"chunk.json", "chunks_manifest.json"}}
       IN  IF json_files = {}
           THEN StageDone(w, FALSE, add_error(r, "Failed to merge transcripts"), {})
           ELSE \/ StageWrote(w, TRUE, atomic([r EXCEPT !.merged_transcript_path = TRUE]),
                              {MergedPath(t), MergedMetaPath(t)},
                              save_merged(t, merged_text_content(json_files)))
                \/ \* get_json or the save of the text raised
                   /\ "merge" \in faults
                   /\ StageDone(w, FALSE, add_error(r, "Failed to merge transcripts"), {})
                \/ \* the save of merged_metadata.json raised
                   /\ "merge" \in faults
                   /\ StageWrote(w, FALSE, add_error(r, "Failed to merge transcripts"),
                                 {MergedPath(t)},
                                 save_merged(t, merged_text_content(json_files)))

\* a failure message that names no chunk
failure_paths_none(r, stage) == {}

\* the chunk paths the manager's failure message names: after a failed
\* transcription, " for chunks: " + ", ".join(failed_chunks)
failure_paths(r, stage) == IF stage = "Transcribing" THEN r.failed_chunks ELSE {}

\* the stage returned failure: task.add_error(<stage message>)
WorkerFail(w) ==
    /\ w \in DOMAIN worker
    /\ worker[w].pc = "fail"
    /\ task' = [task EXCEPT ![worker[w].task] =
                   add_error_naming(@, "stage failed", failure_paths(@, worker[w].stage))]
    /\ SetWorker(w, [worker[w] EXCEPT !.pc = "set_failed"])
    /\ UNCHANGED <<mgrVars, store, merged_text, callVars, otherVars>>

\* except Exception: task.add_error("Error processing task: ...")
WorkerExcept(w) ==
    /\ w \in DOMAIN worker
    /\ worker[w].pc = "except"
    /\ task' = [task EXCEPT ![worker[w].task] = add_error(@, "Error processing task")]
    /\ SetWorker(w, [worker[w] EXCEPT !.pc = "set_failed"])
    /\ UNCHANGED <<mgrVars, store, merged_text, callVars, otherVars>>

\* a failure path that lacks its `return` and goes on with the next stage
after_failed_continue(w) == [worker[w] EXCEPT !.pc = "set", !.stage = NextStage(@)]

\* a failure that ends the worker thread
after_failed_dies(w) == [worker[w] EXCEPT !.pc = "exited"]

\* task.update_status(TaskStatus.FAILED); return
after_failed(w) == [worker[w] EXCEPT !.pc = "task_done"]

WorkerSetFailed(w) ==
    /\ w \in DOMAIN worker
    /\ worker[w].pc = "set_failed"
    /\ LET t == worker[w].task
           rec == after_failed(w)
       IN  /\ task' = [task EXCEPT ![t] = update_status(@, "Failed")]
           /\ SetWorker(w, IF update_status_ret(task[t], "Failed")
                           THEN [rec EXCEPT !.hist = Append(@, "Failed")]
                           ELSE rec)
    /\ UNCHANGED <<mgrVars, store, merged_text, callVars, otherVars>>

\* with task.atomic(): metadata.processing_completed_at = datetime.now()
WorkerStamp(w) ==
    /\ w \in DOMAIN worker
    /\ worker[w].pc = "stamp"
    /\ task' = [task EXCEPT ![worker[w].task] =
                   atomic([@ EXCEPT !.processing_completed_at = TRUE])]
    /\ SetWorker(w, [worker[w] EXCEPT !.pc = "task_done"])
    /\ UNCHANGED <<mgrVars, store, merged_text, callVars, otherVars>>

\* finally: self.task_queue.task_done(), and back to the loop
WorkerTaskDone(w) ==
    /\ w \in DOMAIN worker
    /\ worker[w].pc = "task_done"
    /\ unfinished_tasks' = unfinished_tasks - 1
    /\ SetWorker(w, IdleWorker)
    /\ UNCHANGED <<workers_started, tasks, task_queue, shutdown_event, lock, task, store, merged_text,
                   callVars, otherVars>>

WorkerStep(w) ==
    \/ WorkerLoop(w)
    \/ WorkerGet(w)
    \/ WorkerSetStage(w)
    \/ DownloadVideo(w)
    \/ SplitAudio(w)
    \/ TranscribeAllChunks(w)
    \/ MergeTranscripts(w)
    \/ WorkerFail(w)
    \/ WorkerExcept(w)
    \/ WorkerSetFailed(w)
    \/ WorkerStamp(w)
    \/ WorkerTaskDone(w)

\* every operation of the manager and of its workers
Next ==
    \/ StartWorkers
    \/ \E c \in Callers, u \in Urls : SubmitLock(c, u)
    \/ \E c \in Callers : SubmitPut(c)
    \/ \E c \in Callers : SubmitRollback(c)
    \/ \E c \in Callers, t \in DOMAIN task : ResumeTask(c, t)
    \/ \E c \in Callers : ResumePut(c)
    \/ \E c \in Callers : Shutdown(c)
    \/ \E c \in Callers : ShutdownJoin(c)
    \/ \E w \in DOMAIN worker : WorkerStep(w)

\* urls submitted earlier, whose tasks still wait in the queue
OtherUrls == <<"q1", "q2", "q3">>
Waiting == SubSeq(OtherUrls, 1, max_queue_size)

\* TranscriptionTask(url=...) as add_task left it in the registry and the queue
QueuedTask(u) ==
    [url |-> u, status |-> "Pending", updated_at |-> 0, errors |-> <<>>,
     progress |-> 0, temp_video_path |-> FALSE, chunks_info |-> {}, failed_chunks |-> {},
     merged_transcript_path |-> FALSE, processing_completed_at |-> FALSE,
     total_chunks |-> 0, chunk_count |-> 0,
     word_count |-> 0, confidence_scores |-> <<>>]

\* the queue is full of tasks of other urls when two callers submit one url
InitSubmit ==
    InitQueued({"fail_info"}, [u \in Urls \cup {"q1", "q2", "q3"} |-> 1],
               [i \in DOMAIN Waiting |-> QueuedTask(Waiting[i])], <<>>,
               [i \in DOMAIN Waiting |-> i], [i \in DOMAIN Waiting |-> i])

NextSubmit ==
    \/ StartWorkers
    \/ \E c \in Callers : SubmitLock(c, "u1")
    \/ \E c \in Callers : SubmitPut(c)
    \/ \E c \in Callers : SubmitRollback(c)
    \/ \E w \in DOMAIN worker : WorkerStep(w)

SpecSubmit == InitSubmit /\ [][NextSubmit]_vars

\* the same with resume_task: a failed task is resumed while the queue is full
NextResume ==
    \/ NextSubmit
    \/ \E c \in Callers, t \in DOMAIN task : ResumeTask(c, t)
    \/ \E c \in Callers : ResumePut(c)

SpecResume == InitSubmit /\ [][NextResume]_vars

\* the manager under concurrent callers; the collaborators can fail a download
InitManager == InitWith({"fail_info"}, [u \in Urls |-> 1], <<>>)

Spec == InitManager /\ [][Next]_vars

\* one task through the pipeline, run by the first worker, every failure of the
\* collaborators possible; the interplay of the workers is Spec's
InitPipeline == InitWith(AllFaults, [u \in Urls |-> MaxChunks], <<>>)

NextPipeline ==
    \/ StartWorkers
    \/ SubmitLock("c1", "u1")
    \/ SubmitPut("c1")
    \/ \E t \in DOMAIN task : ResumeTask("c1", t)
    \/ ResumePut("c1")
    \/ \E w \in DOMAIN worker \cap {1} : WorkerStep(w)

SpecPipeline == InitPipeline /\ [][NextPipeline]_vars

\* one task whose transcription or merge can fail and which is resumed, against an
\* endpoint whose responses carry a confidence
InitWords == InitWith({"api", "merge", "confidence"}, [u \in Urls |-> MaxChunks], <<>>)

SpecWords == InitWords /\ [][NextPipeline]_vars

\* the manager's threads run: a worker that can step does, a call in progress goes on
FairSpec ==
    /\ Spec
    /\ \A w \in 1..max_workers : WF_vars(WorkerStep(w))
    /\ \A c \in Callers : WF_vars(SubmitPut(c) \/ SubmitRollback(c) \/ ResumePut(c)
                                     \/ ShutdownJoin(c))

\* the pipeline against a transcription endpoint that answers by a script: per chunk
\* always one status code, or 429 to the first request and 200 afterwards
Steady(code) == [k \in 1..max_tries |-> code]
OnceLimited == [k \in 1..max_tries |-> IF k = 1 THEN 429 ELSE 200]
Scripts == {Steady(code) : code \in StatusCodes} \cup {OnceLimited}

InitRetry ==
    \E sc \in [0..(MaxChunks - 1) -> Scripts] :
       InitScripted({"script"}, [u \in Urls |-> MaxChunks], <<>>, sc)

NextRetry ==
    \/ StartWorkers
    \/ SubmitLock("c1", "u1")
    \/ SubmitPut("c1")
    \/ \E w \in DOMAIN worker \cap {1} : WorkerStep(w)

SpecRetry == InitRetry /\ [][NextRetry]_vars

\* ------------------------------------------------ direct calls on a task
\* time passes
Tick ==
    /\ now < MaxTime
    /\ now' = now + 1
    /\ UNCHANGED <<mgrVars, worker, task, store, merged_text, callVars, last, rlVars, envVars, splitVars, waves, readVars, streamVars>>

\* a caller holding a task calls task.update_status(new)
ClientUpdateStatus(t, new) ==
    /\ ncalls < MaxCalls
    /\ ncalls' = ncalls + 1
    /\ task' = [task EXCEPT ![t] = update_status(@, new)]
    /\ last' = [op |-> "update_status", ret |-> update_status_ret(task[t], new)]
    /\ UNCHANGED <<mgrVars, worker, store, merged_text, call, resumes, enqueued, dupseen, fullhit, now,
                   rlVars, envVars, splitVars, waves, readVars, streamVars>>

\* the pipeline of one task whose status callers also change directly (a pause or
\* cancel endpoint); the collaborators can fail a download
InitClient == InitWith({"fail_info"}, [u \in Urls |-> 1], <<>>)

SpecClient ==
    InitClient /\ [][NextPipeline
                       \/ \E t \in DOMAIN task, new \in TaskStatus : ClientUpdateStatus(t, new)]_vars

\* the same with the threads running: the worker that can step does, a put in
\* progress goes on
FairSpecClient ==
    /\ SpecClient
    /\ WF_vars(WorkerStep(1))
    /\ WF_vars(SubmitPut("c1") \/ ResumePut("c1"))

\* task.update_status(new) on a task record of its own
TaskUpdateStatus(t, new) ==
    /\ task' = [task EXCEPT ![t] = update_status(@, new)]
    /\ last' = [op |-> "update_status", ret |-> update_status_ret(task[t], new)]
    /\ UNCHANGED <<mgrVars, worker, store, merged_text, callVars, now, rlVars, envVars, splitVars, waves, readVars, streamVars>>

\* task.add_error(message)
TaskAddError(t) ==
    /\ Len(task[t].errors) < MaxErrors
    /\ task' = [task EXCEPT ![t] = add_error(@, "error")]
    /\ last' = [op |-> "add_error", ret |-> TRUE]
    /\ UNCHANGED <<mgrVars, worker, store, merged_text, callVars, now, rlVars, envVars, splitVars, waves, readVars, streamVars>>

\* a freshly constructed TranscriptionTask(url=...)
InitTask ==
    InitWith({}, [u \in Urls |-> 1],
             <<[url |-> "u1", status |-> "Pending", updated_at |-> 0, errors |-> <<>>,
                progress |-> 0, temp_video_path |-> FALSE, chunks_info |-> {}, failed_chunks |-> {},
                merged_transcript_path |-> FALSE, processing_completed_at |-> FALSE,
     total_chunks |-> 0, chunk_count |-> 0,
     word_count |-> 0, confidence_scores |-> <<>>]>>)

NextTask ==
    \/ Tick
    \/ \E t \in DOMAIN task, new \in TaskStatus : TaskUpdateStatus(t, new)
    \/ \E t \in DOMAIN task : TaskAddError(t)

SpecTask == InitTask /\ [][NextTask]_vars

\* ------------------------------------------- atomic() seen by unlocked readers
\* update_status up to the yield's return: the lock is taken and, when the move is
\* legal, task.status is assigned; updated_at is not yet written
AtomicSetStatus(t, new) ==
    /\ held.pc = "free"
    /\ task' = [task EXCEPT ![t].status = IF can_transition_to(@, new) THEN new ELSE @]
    /\ held' = [pc |-> "exit", task |-> t,
                set_at |-> IF can_transition_to(task[t].status, new) THEN now ELSE held.set_at]
    /\ UNCHANGED <<mgrVars, worker, tasks, store, merged_text, callVars, now, last, rlVars, envVars, splitVars, waves,
                   streamVars, response>>

\* the end of the atomic() block: updated_at = datetime.now(), then the lock is released
AtomicExit ==
    /\ held.pc = "exit"
    /\ task' = [task EXCEPT ![held.task] = atomic(@)]
    /\ held' = [held EXCEPT !.pc = "free"]
    /\ UNCHANGED <<mgrVars, worker, tasks, store, merged_text, callVars, now, last, rlVars, envVars, splitVars, waves,
                   streamVars, response>>

\* to_response(): status=self.status is evaluated first, without the lock
ReadStatus(t) ==
    /\ response.pc \in {"idle", "built"}
    /\ response' = [pc |-> "status", status |-> task[t].status, set_at |-> held.set_at,
                    updated_at |-> 0]
    /\ UNCHANGED <<mgrVars, worker, task, store, merged_text, callVars, now, last, rlVars, envVars, splitVars, waves,
                   streamVars, held>>

\* to_response(): updated_at=self.updated_at is evaluated after it, without the lock
ReadUpdatedAt(t) ==
    /\ response.pc = "status"
    /\ response' = [response EXCEPT !.pc = "built", !.updated_at = task[t].updated_at]
    /\ UNCHANGED <<mgrVars, worker, task, store, merged_text, callVars, now, last, rlVars, envVars, splitVars, waves,
                   streamVars, held>>

InitAtomic == InitTask

NextAtomic ==
    \/ Tick
    \/ \E new \in TaskStatus : AtomicSetStatus(1, new)
    \/ AtomicExit
    \/ ReadStatus(1)
    \/ ReadUpdatedAt(1)

SpecAtomic == InitAtomic /\ [][NextAtomic]_vars

\* transcribe_chunks_async: task.metadata.processing.update({'failed_chunks': ...}),
\* an assignment made without `with task.atomic()`; shown while no thread holds the lock
ProcessingUpdate(t, failed_chunks) ==
    /\ held.pc = "free"
    /\ task[t].status = "Transcribing"
    /\ task[t].failed_chunks # failed_chunks
    /\ task' = [task EXCEPT ![t].failed_chunks = failed_chunks]
    /\ UNCHANGED <<mgrVars, worker, tasks, store, merged_text, callVars, now, last, rlVars, envVars,
                   splitVars, waves, streamVars, held, response>>

\* a task in Transcribing whose record is written by the worker (update_status) and
\* by the transcriber
InitWrites ==
    InitWith({}, [u \in Urls |-> 1],
             <<[url |-> "u1", status |-> "Transcribing", updated_at |-> 0, errors |-> <<>>,
                progress |-> 0, temp_video_path |-> TRUE, chunks_info |-> 0..(MaxChunks - 1),
                failed_chunks |-> {}, merged_transcript_path |-> FALSE,
                processing_completed_at |-> FALSE, total_chunks |-> MaxChunks,
                chunk_count |-> MaxChunks]>>)

NextWrites ==
    \/ Tick
    \/ \E new \in TaskStatus : AtomicSetStatus(1, new)
    \/ AtomicExit
    \/ \E k \in task[1].chunks_info : ProcessingUpdate(1, {k})

SpecWrites == InitWrites /\ [][NextWrites]_vars

\* ---------------------------------------------------------------- RateLimit
\* can_request: now = datetime.now(), read before the lock is taken
RLReadNow(c) ==
    /\ rl[c].pc = "idle"
    /\ rl' = [rl EXCEPT ![c] = [pc |-> "lock", now |-> now, ok |-> FALSE, wait |-> 0]]
    /\ UNCHANGED <<mgrVars, worker, task, store, merged_text, callVars, now, last, rl_requests, admitted,
                   posted, envVars, splitVars, waves, readVars, streamVars>>

\* can_request: the block under self.lock
RLLocked(c) ==
    /\ rl[c].pc = "lock"
    /\ LET mine == rl[c].now
           kept == SelectSeq(rl_requests, LAMBDA t : mine - t < window_seconds)
       IN  IF Len(kept) < max_requests
           THEN /\ Len(admitted) < MaxAdmit
                /\ rl_requests' = Append(kept, mine)
                /\ admitted' = Append(admitted, now)
                /\ rl' = [rl EXCEPT ![c] = [pc |-> "idle", now |-> 0, ok |-> TRUE, wait |-> 0]]
           ELSE /\ rl_requests' = kept
                /\ admitted' = admitted
                /\ LET wait_time == window_seconds - (mine - kept[1])
                   IN  rl' = [rl EXCEPT ![c] = [pc |-> "idle", now |-> 0, ok |-> FALSE,
                                 wait |-> IF wait_time > 0 THEN wait_time ELSE 0]]
    /\ UNCHANGED <<mgrVars, worker, task, store, merged_text, callVars, now, last, posted, envVars, splitVars, waves,
                   readVars, streamVars>>

NextRL ==
    \/ Tick
    \/ \E c \in Threads : RLReadNow(c)
    \/ \E c \in Threads : RLLocked(c)

SpecRL == InitWith({}, [u \in Urls |-> 1], <<>>) /\ [][NextRL]_vars

\* ------------------------------- transcribe_chunk_async and the rate limiter
\* a thread that is not inside a chunk attempt
NoAttempt == [pc |-> "idle", now |-> 0, ok |-> FALSE, wait |-> 0]

\* can_request() is called once, at the start of the attempt
AttemptCanRequest(c) ==
    /\ rl[c] = NoAttempt
    /\ RLReadNow(c)

\* if not can_request: await asyncio.sleep(wait_time); a refusal has wait_time > 0
AttemptSleep(c) ==
    /\ rl[c].pc = "idle" /\ ~rl[c].ok /\ rl[c].wait > 0
    /\ rl' = [rl EXCEPT ![c] = [pc |-> "sleep", now |-> now + rl[c].wait, ok |-> FALSE, wait |-> 0]]
    /\ UNCHANGED <<mgrVars, worker, task, store, merged_text, callVars, now, last, rl_requests, admitted,
                   posted, envVars, splitVars, waves, readVars, streamVars>>

\* the chunk is fetched and preprocessed, then client.post(...): after an admission,
\* or after the sleep has elapsed
AttemptPost(c) ==
    /\ \/ rl[c].pc = "idle" /\ rl[c].ok
       \/ rl[c].pc = "sleep" /\ now >= rl[c].now
    /\ Len(posted) < MaxAdmit
    /\ posted' = Append(posted, now)
    /\ rl' = [rl EXCEPT ![c] = NoAttempt]
    /\ UNCHANGED <<mgrVars, worker, task, store, merged_text, callVars, now, last, rl_requests, admitted,
                   envVars, splitVars, waves, readVars, streamVars>>

NextAttempt ==
    \/ Tick
    \/ \E c \in Threads : AttemptCanRequest(c)
    \/ \E c \in Threads : RLLocked(c)
    \/ \E c \in Threads : AttemptSleep(c)
    \/ \E c \in Threads : AttemptPost(c)

SpecAttempt == InitWith({}, [u \in Urls |-> 1], <<>>) /\ [][NextAttempt]_vars

\* ------------------------------- transcribe_chunks_async, batch by batch
batch_size == 5

\* the task given to transcribe_chunks_async, and len(chunks_info)
WaveTask == task[1]
total_chunks == Cardinality(WaveTask.chunks_info)

\* batch = chunks_info[i:i + batch_size], as positions in the list
batch(i) == {k \in 1..total_chunks : i < k /\ k <= i + batch_size}

\* a result that does not look at the failed chunks
transcribe_chunks_result_always(failed_chunks) == "true"

\* if failed_chunks: ... return False; otherwise return True
transcribe_chunks_result(failed_chunks) == IF failed_chunks # {} THEN "false" ELSE "true"

WavesUnchanged ==
    UNCHANGED <<mgrVars, worker, store, merged_text, callVars, now, last, rlVars, envVars, splitVars, readVars,
                streamVars>>

\* if not chunks_info: raise ValueError("No chunks found"), caught by the outer
\* except, which adds "Transcription failed" and returns False
WavesStart ==
    /\ waves.pc = "start"
    /\ IF total_chunks = 0
       THEN /\ task' = [task EXCEPT ![1] = add_error(@, "Transcription failed: No chunks found")]
            /\ waves' = [waves EXCEPT !.pc = "done", !.ret = "false"]
       ELSE /\ waves' = [waves EXCEPT !.pc = "create"]
            /\ UNCHANGED task
    /\ WavesUnchanged

\* batch_tasks.append((chunk_info, self.transcribe_chunk_async(chunk_path, task))):
\* the call makes a coroutine object; none of its body runs yet
WaveCreate ==
    /\ waves.pc = "create"
    /\ waves' = [waves EXCEPT !.pc = "await",
                              !.op = [k \in 1..MaxWaveChunks |->
                                         IF k \in batch(waves.i) THEN "created" ELSE @[k]]]
    /\ UNCHANGED task
    /\ WavesUnchanged

\* for chunk_info, task_coroutine in batch_tasks: result = await task_coroutine:
\* the next coroutine of the batch starts to run
ChunkStart ==
    /\ waves.pc = "await"
    /\ \A k \in 1..MaxWaveChunks : waves.op[k] # "running"
    /\ \E k \in batch(waves.i) :
          /\ waves.op[k] = "created"
          /\ \A j \in batch(waves.i) : j < k => waves.op[j] # "created"
          /\ waves' = [waves EXCEPT !.op[k] = "running"]
    /\ UNCHANGED task
    /\ WavesUnchanged

\* the awaited coroutine returns True or False (a False comes with the chunk's own
\* "Transcription error"); after the last one of the batch the loop is left
ChunkFinish(result) ==
    /\ waves.pc = "await"
    /\ \E k \in batch(waves.i) :
          /\ waves.op[k] = "running"
          /\ waves' = [waves EXCEPT
                         !.op[k] = result,
                         !.pc = IF \E j \in batch(waves.i) : waves.op[j] = "created"
                                THEN "await" ELSE "progress"]
    /\ task' = IF result = "failed"
               THEN [task EXCEPT ![1] = add_error(@, "Transcription error")]
               ELSE task
    /\ WavesUnchanged

\* update_progress(min((i + len(batch)) / total_chunks * 100, 99.9)), then the next
\* batch after a sleep, or the result
WaveProgress ==
    /\ waves.pc = "progress"
    /\ LET r == update_progress(WaveTask,
                     Min(((waves.i + Cardinality(batch(waves.i))) * FullProgress) \div total_chunks,
                         AlmostFull))
           failed_chunks == {k \in 1..total_chunks : waves.op[k] = "failed"}
       IN  IF waves.i + batch_size < total_chunks
           THEN /\ waves' = [waves EXCEPT !.pc = "create", !.i = @ + batch_size]
                /\ task' = [task EXCEPT ![1] = r]
           ELSE /\ waves' = [waves EXCEPT !.pc = "done",
                                          !.ret = transcribe_chunks_result(failed_chunks)]
                /\ task' = [task EXCEPT ![1] =
                               IF failed_chunks # {}
                               THEN [add_error(r, "Failed to transcribe chunks")
                                       EXCEPT !.failed_chunks = failed_chunks]
                               ELSE r]
    /\ WavesUnchanged

\* a task in Transcribing with any chunk list of up to MaxWaveChunks chunks
InitWaves ==
    \E n \in 0..MaxWaveChunks :
        InitWith({}, [u \in Urls |-> 1],
                 <<[url |-> "u1", status |-> "Transcribing", updated_at |-> 0, errors |-> <<>>,
                    progress |-> 0, temp_video_path |-> TRUE, chunks_info |-> 1..n,
                    failed_chunks |-> {}, merged_transcript_path |-> FALSE,
                    processing_completed_at |-> FALSE,
     total_chunks |-> 0, chunk_count |-> 0,
     word_count |-> 0, confidence_scores |-> <<>>]>>)

NextWaves ==
    \/ WavesStart
    \/ WaveCreate
    \/ ChunkStart
    \/ \E result \in {"ok", "failed"} : ChunkFinish(result)
    \/ WaveProgress

SpecWaves == InitWaves /\ [][NextWaves]_vars

\* ------------------------------------------------ split_audio: the plan
\* a division that rounds down
floor_div(d, c) == d \div c

\* math.ceil(total_duration / chunk_duration)
ceil_div(d, c) == (d + c - 1) \div c

SplitUnchanged ==
    UNCHANGED <<mgrVars, worker, task, store, merged_text, callVars, now, last, rlVars, envVars, waves,
                readVars, streamVars, index_pair>>

\* the probed total_duration and the chunk_duration, in one time unit;
\* num_chunks = max(1, math.ceil(total_duration / chunk_duration))
SplitPlan(d, c) ==
    /\ split.pc = "off"
    /\ split' = [pc |-> "loop", total_duration |-> d, chunk_duration |-> c,
                 num_chunks |-> Max(1, ceil_div(d, c)), i |-> 0, chunks_info |-> <<>>]
    /\ SplitUnchanged

\* for i in range(num_chunks): start_time = i * chunk_duration;
\* end_time = min((i + 1) * chunk_duration, total_duration); duration = end - start
SplitChunk ==
    /\ split.pc = "loop"
    /\ split.i < split.num_chunks
    /\ LET start_time == split.i * split.chunk_duration
           end_time == Min((split.i + 1) * split.chunk_duration, split.total_duration)
       IN  split' = [split EXCEPT
                       !.i = @ + 1,
                       !.chunks_info = Append(@, [chunk_index |-> split.i,
                                                  start_time |-> start_time,
                                                  end_time |-> end_time,
                                                  duration |-> end_time - start_time])]
    /\ SplitUnchanged

\* the loop is left
SplitPlanned ==
    /\ split.pc = "loop"
    /\ split.i = split.num_chunks
    /\ split' = [split EXCEPT !.pc = "done"]
    /\ SplitUnchanged

NextSplitPlan ==
    \/ \E d \in 1..MaxDuration, c \in 1..MaxChunkDuration : SplitPlan(d, c)
    \/ SplitChunk
    \/ SplitPlanned

SpecSplitPlan == InitWith({}, [u \in Urls |-> 1], <<>>) /\ [][NextSplitPlan]_vars

\* ------------------------------------------- the names of the chunk artifacts
\* a string is the sequence of its character codes
Chr0 == 48
ChrUnderscore == 95
chunk_prefix == <<99, 104, 117, 110, 107, 95>>   \* "chunk_"

\* str(n): the decimal digits of n
RECURSIVE digits(_)
digits(n) == IF n < 10 THEN <<Chr0 + n>> ELSE Append(digits(n \div 10), Chr0 + (n % 10))

\* f"{n:03d}": zero-padded to at least three digits, longer when n needs more
pad_width == 3

RECURSIVE zero_pad(_, _)
zero_pad(str, width) == IF Len(str) >= width THEN str ELSE zero_pad(<<Chr0>> \o str, width)

format_index(i) == zero_pad(digits(i), pad_width)

\* f"chunk_{i:03d}_{start_timestamp}_{end_timestamp}.{audio_format}" up to the "_"
\* that follows the index; the transcriber keeps this stem and changes the extension.
\* Two names of different indexes differ at or before that "_"
chunk_filename(i) == chunk_prefix \o format_index(i) \o <<ChrUnderscore>>

\* a < b for Python strings: by the first position where they differ, a proper
\* prefix first
RECURSIVE str_less(_, _)
str_less(a, b) ==
    IF b = <<>> THEN FALSE
    ELSE IF a = <<>> THEN TRUE
    ELSE IF Head(a) # Head(b) THEN Head(a) < Head(b)
    ELSE str_less(Tail(a), Tail(b))

NamesUnchanged ==
    UNCHANGED <<mgrVars, worker, task, store, merged_text, callVars, now, last, rlVars, envVars, waves,
                readVars, streamVars, split>>

\* the next pair of indexes at the same distance
NamesNext ==
    /\ index_pair.j < MaxIndex
    /\ index_pair' = [i |-> index_pair.i + 1, j |-> index_pair.j + 1]
    /\ NamesUnchanged

\* a pair one further apart
NamesWiden ==
    /\ index_pair.j < MaxIndex
    /\ index_pair.j - index_pair.i < MaxGap
    /\ index_pair' = [index_pair EXCEPT !.j = @ + 1]
    /\ NamesUnchanged

SpecNames == InitWith({}, [u \in Urls |-> 1], <<>>) /\ [][NamesNext \/ NamesWiden]_vars

\* ------------------------------------ TranscriptionService: the status stream
\* stage_weights, in tenths: Downloading 0.2, Splitting 0.1, Transcribing 0.6, Merging 0.1
stage_weights(s) ==
    CASE s = "Downloading"  -> 2
      [] s = "Splitting"    -> 1
      [] s = "Transcribing" -> 6
      [] s = "Merging"      -> 1
      [] OTHER              -> 0

Weighted == {"Downloading", "Splitting", "Transcribing", "Merging"}

\* the status values in the order of Python's string comparison
value_order == <<"Cancelled", "Completed", "Downloading", "Failed", "Merging", "Paused",
                 "Pending", "Splitting", "Transcribing">>

\* stage.value < status.value
value_less(stage, status) ==
    \E i, j \in DOMAIN value_order :
        value_order[i] = stage /\ value_order[j] = status /\ i < j

RECURSIVE sum_weights(_)
sum_weights(S) ==
    IF S = {} THEN 0
    ELSE LET s == CHOOSE x \in S : TRUE IN stage_weights(s) + sum_weights(S \ {s})

\* calculate_overall_progress(task), in tenths of a percent
calculate_overall_progress(r) ==
    IF r.status = "Completed" THEN FullProgress
    ELSE IF r.status = "Failed" THEN r.progress
    ELSE IF stage_weights(r.status) = 0 THEN 0
    ELSE LET completed_progress == sum_weights({s \in Weighted : value_less(s, r.status)})
             current_progress == (r.progress * stage_weights(r.status)) \div 10
         IN  Min(AlmostFull, completed_progress * 100 + current_progress)

\* a stream that reports progress only, and has no rule for a terminal status
should_update_on_progress(overall, previous_progress, current_status, previous_status) ==
    overall - previous_progress >= 1

\* should_update: progress advanced by 0.1, or the status changed, or it is terminal
should_update(overall, previous_progress, current_status, previous_status) ==
    \/ overall - previous_progress >= 1
    \/ current_status # previous_status
    \/ current_status \in {"Failed", "Completed"}

\* task.to_streaming_response(): StreamingTaskResponse.from_task(task.to_response())
from_task(r) ==
    [status |-> r.status, progress |-> r.progress,
     error |-> IF r.errors = <<>> THEN "None" ELSE r.errors[Len(r.errors)].message]

\* stream_status(task) is called: previous_status = None, previous_progress = 0.0
StreamStart(t) ==
    /\ stream.pc = "off"
    /\ t \in DOMAIN task
    /\ stream' = [NoStream EXCEPT !.pc = "read", !.task = t]
    /\ UNCHANGED <<mgrVars, worker, task, store, merged_text, callVars, now, last, rlVars, envVars, splitVars, waves, readVars, events>>

\* current_status = task.status, and the reset of the locals when it changed
StreamRead ==
    /\ stream.pc = "read"
    /\ LET current_status == task[stream.task].status
       IN  stream' = IF current_status # stream.previous_status
                     THEN [stream EXCEPT !.pc = "calc", !.current_status = current_status,
                                         !.previous_status = current_status,
                                         !.previous_progress = 0]
                     ELSE [stream EXCEPT !.pc = "calc", !.current_status = current_status]
    /\ UNCHANGED <<mgrVars, worker, task, store, merged_text, callVars, now, last, rlVars, envVars, splitVars, waves, readVars, events>>

\* overall_progress = calculate_overall_progress(task); should_update; or sleep(0.5)
StreamCalc ==
    /\ stream.pc = "calc"
    /\ LET overall == calculate_overall_progress(task[stream.task])
       IN  stream' = IF should_update(overall, stream.previous_progress,
                                      stream.current_status, stream.previous_status)
                     THEN [stream EXCEPT !.pc = "emit", !.overall_progress = overall]
                     ELSE [stream EXCEPT !.pc = "read"]
    /\ UNCHANGED <<mgrVars, worker, task, store, merged_text, callVars, now, last, rlVars, envVars, splitVars, waves, readVars, events>>

\* yield task.to_streaming_response(); previous_progress = overall_progress; break
\* when current_status is terminal, else sleep(0.5)
StreamEmit ==
    /\ stream.pc = "emit"
    /\ events' = Append(events, from_task(task[stream.task]))
    /\ stream' = [stream EXCEPT
                    !.pc = IF stream.current_status \in {"Failed", "Completed"}
                           THEN "done" ELSE "read",
                    !.previous_progress = stream.overall_progress]
    /\ UNCHANGED <<mgrVars, worker, task, store, merged_text, callVars, now, last, rlVars, envVars, splitVars, waves, readVars>>

\* except Exception: task.add_error("Status streaming error: ..."), one event, break
StreamExcept ==
    /\ stream.pc \in {"read", "calc", "emit"}
    /\ "stream" \in faults
    /\ LET rec == add_error(task[stream.task], "Status streaming error")
       IN  /\ task' = [task EXCEPT ![stream.task] = rec]
           /\ events' = Append(events, from_task(rec))
    /\ stream' = [stream EXCEPT !.pc = "done", !.error = TRUE]
    /\ UNCHANGED <<mgrVars, worker, store, merged_text, callVars, now, last, rlVars, envVars, splitVars, waves, readVars>>

StreamStep ==
    \/ StreamRead
    \/ StreamCalc
    \/ StreamEmit

\* one submitted url, one worker that takes it through the pipeline, and one
\* subscriber streaming the task's status
InitStream == InitWith({"fail_audio", "merge"}, [u \in Urls |-> MaxChunks], <<>>)

NextStream ==
    \/ StartWorkers
    \/ ncalls = 0 /\ SubmitLock("c1", "u1")
    \/ SubmitPut("c1")
    \/ \E w \in DOMAIN worker \cap {1} : WorkerStep(w)
    \/ \E t \in DOMAIN task : StreamStart(t)
    \/ StreamStep

SpecStream == InitStream /\ [][NextStream]_vars

\* the worker thread keeps running and the generator keeps being iterated
FairSpecStream ==
    /\ SpecStream
    /\ WF_vars(\E w \in DOMAIN worker \cap {1} : WorkerStep(w))
    /\ WF_vars(StreamStep)

\* one url submitted once, its worker, resume_task and one subscriber that meets
\* an internal error, with the failures that record an error without failing the
\* task (a chunk that cannot be cut, the progress hook, the stream itself); the
\* task fails when none of its chunks can be cut
\* one submitted url, its worker, one subscriber, and a caller that cancels the task
InitCancel == InitWith({}, [u \in Urls |-> 1], <<>>)

NextCancel ==
    \/ StartWorkers
    \/ ncalls = 0 /\ SubmitLock("c1", "u1")
    \/ SubmitPut("c1")
    \/ \E w \in DOMAIN worker \cap {1} : WorkerStep(w)
    \/ \E t \in DOMAIN task : StreamStart(t)
    \/ StreamStep
    \/ \E t \in DOMAIN task : ClientUpdateStatus(t, "Cancelled")

SpecCancel == InitCancel /\ [][NextCancel]_vars

\* the worker thread runs and the generator is iterated by its subscriber
FairSpecCancel ==
    /\ SpecCancel
    /\ WF_vars(WorkerStep(1))
    /\ WF_vars(SubmitPut("c1"))
    /\ WF_vars(StreamStep)

ErrorFaults == {"cut", "hook", "stream"}

InitErrors == InitWith(ErrorFaults, [u \in Urls |-> MaxChunks], <<>>)

NextErrors ==
    \/ StartWorkers
    \/ ncalls = 0 /\ SubmitLock("c1", "u1")
    \/ SubmitPut("c1")
    \/ \E t \in DOMAIN task : ResumeTask("c1", t)
    \/ ResumePut("c1")
    \/ \E w \in DOMAIN worker \cap {1} : WorkerStep(w)
    \/ \E t \in DOMAIN task : StreamStart(t)
    \/ StreamExcept

SpecErrors == InitErrors /\ [][NextErrors]_vars

\* the transition table as the claims state it
MoveTable ==
    {<<"Pending", "Downloading">>, <<"Pending", "Failed">>, <<"Pending", "Cancelled">>,
     <<"Downloading", "Splitting">>, <<"Downloading", "Failed">>,
     <<"Downloading", "Paused">>, <<"Downloading", "Cancelled">>,
     <<"Splitting", "Transcribing">>, <<"Splitting", "Failed">>,
     <<"Splitting", "Paused">>, <<"Splitting", "Cancelled">>,
     <<"Transcribing", "Merging">>, <<"Transcribing", "Failed">>,
     <<"Transcribing", "Paused">>, <<"Transcribing", "Cancelled">>,
     <<"Merging", "Completed">>, <<"Merging", "Failed">>,
     <<"Merging", "Paused">>, <<"Merging", "Cancelled">>,
     <<"Completed", "Failed">>, <<"Failed", "Pending">>, <<"Cancelled", "Pending">>,
     <<"Paused", "Pending">>, <<"Paused", "Failed">>, <<"Paused", "Cancelled">>}

\* C1: every change of a task's status, whoever makes it (a worker, resume_task, or a
\* caller invoking update_status with any target), is a move of the transition table.
C1_LegalMoves ==
    [][\A t \in DOMAIN task :
          task'[t].status # task[t].status
             => <<task[t].status, task'[t].status>> \in MoveTable]_vars

\* a task that failed, was resumed to Pending, while an illegal update_status was refused
C1_Witness ==
    \E t \in DOMAIN task :
       /\ task[t].status = "Pending"
       /\ task[t].errors # <<>>
       /\ last.op = "update_status"
       /\ ~last.ret

\* C2: update_status(new) for a move that is not in the table returns false and leaves
\* the whole task record (status, updated_at, errors, metadata) as it was.
C2_IllegalLeavesRecord ==
    [][(last'.op = "update_status" /\ ~last'.ret) => task' = task]_vars

IsPrefix(h, seq) == Len(h) <= Len(seq) /\ \A i \in 1..Len(h) : h[i] = seq[i]

RunHistory(h) ==
    \/ IsPrefix(h, Pipeline)
    \/ /\ h # <<>>
       /\ h[Len(h)] = "Failed"
       /\ IsPrefix(SubSeq(h, 1, Len(h) - 1), Pipeline)

\* C3: the statuses a worker gives a task in one run are a prefix of Downloading,
\* Splitting, Transcribing, Merging, Completed, optionally followed by Failed; a stage
\* handler runs only when the last status the worker set is that stage; after Failed or
\* Completed the worker sets no further status and runs no further stage.
C3_StagesInOrder ==
    \A w \in DOMAIN worker :
       LET h == worker[w].hist
       IN  /\ RunHistory(h)
           /\ worker[w].pc = "run" =>
                 /\ h # <<>>
                 /\ h[Len(h)] = worker[w].stage
                 /\ worker[w].stage \in {"Downloading", "Splitting", "Transcribing", "Merging"}
           /\ (h # <<>> /\ h[Len(h)] \in {"Failed", "Completed"}) =>
                 worker[w].pc \in {"stamp", "task_done"}

\* a worker in a second run of a task (resumed after a failure) is merging
C3_Witness ==
    \E w \in DOMAIN worker :
       /\ worker[w].pc = "run"
       /\ worker[w].stage = "Merging"
       /\ task[worker[w].task].errors # <<>>
       /\ task[worker[w].task].errors[1].stage = "Downloading"

\* C4: Splitting implies the audio object is stored and its path recorded; Transcribing
\* implies the manifest and every chunk of chunks_info are stored; Merging implies every
\* listed chunk has its .json and .txt; Completed implies the merged transcript is
\* stored and merged_transcript_path is set.
C4_ArtifactsPrecedeStage ==
    \A t \in DOMAIN task :
       LET r == task[t]
       IN  /\ r.status = "Splitting" => (AudioPath(t) \in store /\ r.temp_video_path)
           /\ r.status = "Transcribing" =>
                 /\ ManifestPath(t) \in store
                 /\ r.chunks_info # {}
                 /\ \A i \in r.chunks_info : ChunkPath(t, i) \in store
           /\ r.status = "Merging" =>
                 \A i \in r.chunks_info : JsonPath(t, i) \in store /\ TxtPath(t, i) \in store
           /\ r.status = "Completed" =>
                 (MergedPath(t) \in store /\ r.merged_transcript_path)

\* a task completed although one planned chunk could not be cut
C4_Witness ==
    \E t \in DOMAIN task :
       /\ task[t].status = "Completed"
       /\ task[t].chunks_info = {1}

\* C5: the registry never holds two tasks with one url; per url add_task queues (and
\* returns) at most one task; and when a submit of the url was refused as a duplicate,
\* no submit of it met a full queue and none is still in progress, exactly one was queued.
C5_Dedup ==
    /\ \A i, j \in DOMAIN tasks : i # j => task[tasks[i]].url # task[tasks[j]].url
    /\ \A u \in Urls :
          /\ enqueued[u] <= 1
          /\ (dupseen[u] /\ ~fullhit[u] /\ \A c \in Callers : call[c].url # u)
                => enqueued[u] = 1

\* two submits of one url overlap: one has registered its task and not queued it yet,
\* the other has already been refused
C5_Witness ==
    \E c, d \in Callers :
       /\ c # d
       /\ call[c].pc = "put"
       /\ call[c].url = "u1"
       /\ call[d].op = "add_task"
       /\ call[d].ret = "nil"
       /\ dupseen["u1"]
       /\ ~fullhit["u1"]
       /\ enqueued["u1"] = 0

\* C6: a submit whose put meets a full queue queues nothing, removes exactly the task it
\* had appended to the registry, and returns nil.
C6_QueueFullRollsBack ==
    [][\A c \in Callers :
          /\ (call[c].pc = "idle" /\ call'[c].pc = "put")
                => (tasks' = Append(tasks, call'[c].tid) /\ task_queue' = task_queue)
          /\ (call[c].pc = "put" /\ call'[c] # call[c]
                  /\ Len(task_queue) >= max_queue_size)
                => (call'[c].pc = "rollback" /\ tasks' = tasks /\ task_queue' = task_queue)
          /\ (call[c].pc = "rollback" /\ call'[c] # call[c])
                => /\ call'[c] = Returned("add_task", "nil")
                   /\ task_queue' = task_queue
                   /\ Len(tasks') = Len(tasks) - 1
                   /\ tasks' = Remove(tasks, call[c].tid)
                   /\ \A i \in DOMAIN tasks' : tasks'[i] # call[c].tid
                   /\ \A i \in DOMAIN task_queue' : task_queue'[i] # call[c].tid]_vars

\* a submit has been refused because the queue was full, none as a duplicate
C6_Witness ==
    \E c \in Callers, u \in Urls :
       /\ call[c] = Returned("add_task", "nil")
       /\ fullhit[u]
       /\ \A v \in Urls : ~dupseen[v]
       /\ ~Registered(u)

\* C7: the queue never holds more than max_queue_size tasks, never more than
\* max_workers tasks are being processed, and the manager has exactly max_workers
\* worker threads however often _start_workers runs.
C7_Bounded ==
    /\ Len(task_queue) <= max_queue_size
    /\ Cardinality({w \in DOMAIN worker : worker[w].task # 0}) <= max_workers
    /\ Len(worker) = IF workers_started THEN max_workers ELSE 0

\* the queue is full while every worker holds a task
C7_Witness ==
    /\ Len(task_queue) = max_queue_size
    /\ workers_started
    /\ \A w \in DOMAIN worker : worker[w].task # 0

\* C8: a submit called after shutdown() registers nothing and returns nil.
C8_NoSubmitAfterShutdown ==
    [][\A c \in Callers :
          (shutdown_event /\ call[c].pc = "idle" /\ call'[c] # call[c]
              /\ call'[c].op = "add_task")
             => (call'[c] = Returned("add_task", "nil") /\ tasks' = tasks
                   /\ task_queue' = task_queue)]_vars

\* C9: shutdown(), once called, eventually returns.
C9_ShutdownReturns ==
    \A c \in Callers : (call[c].pc = "sd_join") ~> (call[c].pc = "idle")

AdmittedIn(x) ==
    Cardinality({i \in DOMAIN admitted : x <= admitted[i] /\ admitted[i] < x + window_seconds})

\* C10: in no interval of window_seconds does can_request admit more than max_requests.
C10_RateBound == \A x \in 0..MaxTime : AdmittedIn(x) <= max_requests

\* the chunks the scripted endpoint refuses on every attempt
AlwaysRefused == {i \in DOMAIN script : \A k \in 1..max_tries : script[i][k] # 200}

LatestError(r) == r.errors[Len(r.errors)]

\* C11: a chunk counts as failed only when the endpoint refused each of its (up to 3)
\* attempts; in particular when every chunk gets 429 to its first request and 200 to
\* the second, no chunk fails, the results are written and the task ends Completed.
C11_RetriedBeforeFailed ==
    \A t \in DOMAIN task :
       /\ task[t].failed_chunks \subseteq AlwaysRefused
       /\ ((\A i \in DOMAIN script : script[i] = OnceLimited)
              /\ task[t].status \in {"Completed", "Failed"})
             => /\ task[t].status = "Completed"
                /\ \A i \in task[t].chunks_info :
                      JsonPath(t, i) \in store /\ TxtPath(t, i) \in store

\* C12: when a non-empty set F of chunks is refused on every attempt and the others are
\* transcribed, the task never becomes Merging, the merged transcript is never written,
\* and once Failed its latest error is of stage Transcribing, names every chunk of F,
\* and failed_chunks is exactly F.
C12_FailedChunks ==
    ((\A i \in DOMAIN script : script[i] \in {Steady(code) : code \in StatusCodes})
        /\ AlwaysRefused # {})
       => \A t \in DOMAIN task :
             /\ task[t].status \notin {"Merging", "Completed"}
             /\ MergedPath(t) \notin store
             /\ \A w \in DOMAIN worker : worker[w].task = t => "Merging" \notin
                   {worker[w].hist[j] : j \in DOMAIN worker[w].hist}
             /\ task[t].status = "Failed" =>
                   /\ task[t].failed_chunks = AlwaysRefused
                   /\ LatestError(task[t]).stage = "Transcribing"
                   /\ AlwaysRefused \subseteq LatestError(task[t]).paths

\* a task has failed because its second chunk was refused with 500 each time while its
\* first was transcribed
C12_Witness ==
    /\ script # <<>>
    /\ script[0] = Steady(200)
    /\ script[1] = Steady(500)
    /\ \E t \in DOMAIN task :
          /\ task[t].status = "Failed"
          /\ JsonPath(t, 0) \in store
          /\ task[t].failed_chunks = {1}

\* C13: the progress values of the successive events of a task's stream are
\* non-decreasing, lie in [0, 100], and an event carries progress 100 exactly when
\* its status is Completed.
C13_StreamProgress ==
    /\ \A i \in DOMAIN events :
          /\ events[i].progress \in 0..FullProgress
          /\ events[i].progress = FullProgress <=> events[i].status = "Completed"
    /\ \A i \in 1..(Len(events) - 1) : events[i].progress <= events[i + 1].progress

Terminal == {"Completed", "Failed"}

\* the stream has ended with an event that carries the status the task has
EndedWith(S) ==
    /\ stream.pc = "done"
    /\ events # <<>>
    /\ events[Len(events)].status \in S
    /\ events[Len(events)].status = task[stream.task].status

FailedEvents == {i \in DOMAIN events : events[i].status = "Failed"}

\* C15: the stream of a task that fails emits exactly one event with status Failed,
\* whatever the interleaving of the worker and the polls; that event is the last
\* one, and its error is the message of the task's latest error.
C15_OneFailedEvent ==
    /\ Cardinality(FailedEvents) <= 1
    /\ (stream.pc = "done" /\ task[stream.task].status = "Failed") =>
          /\ FailedEvents = {Len(events)}
          /\ events[Len(events)].error = LatestError(task[stream.task]).message

\* C16: of any two consecutive events of a task's stream, the later one has the
\* status of the earlier one or a status one legal move away from it.
C16_ObservedMovesLegal ==
    \A i \in 1..(Len(events) - 1) :
        \/ events[i + 1].status = events[i].status
        \/ <<events[i].status, events[i + 1].status>> \in MoveTable

\* the texts of chunks 0..n-1 joined by single newlines
RECURSIVE ChunkTexts(_)
ChunkTexts(n) == IF n = 1 THEN <<0>> ELSE ChunkTexts(n - 1) \o <<NewLine, n - 1>>

\* C17: after a successful merge of a task whose chunks are 0..N-1,
\* merged_transcript.txt holds exactly the texts of chunks 0..N-1 in index order,
\* joined by single newlines, with no line added or missing.
C17_MergedIsJoin ==
    \A t \in DOMAIN task :
        (/\ task[t].merged_transcript_path
         /\ task[t].status = "Completed"
         /\ \E n \in 1..MaxChunks : task[t].chunks_info = 0..(n - 1))
        => <<t, ChunkTexts(Cardinality(task[t].chunks_info))>> \in merged_text

\* C18: a task whose status is Failed has at least one error: every failure path
\* appends its error before the move to Failed.
C18_FailedHasError ==
    \A t \in DOMAIN task : task[t].status = "Failed" => task[t].errors # <<>>

\* a task that failed while merging, whose latest error is the manager's own
C18_Witness ==
    \E t \in DOMAIN task :
        /\ task[t].status = "Failed"
        /\ LatestError(task[t]).stage = "Merging"
        /\ LatestError(task[t]).message = "stage failed"

\* C19 as stated: a task whose status is Completed has no recorded error.
C19_CompletedNoError ==
    \A t \in DOMAIN task : task[t].status = "Completed" => task[t].errors = <<>>

\* the errors recorded by steps that do not fail the task
NonFatal == {"Failed to create chunk", "Error in progress hook", "Status streaming error"}

\* C19, amended: a Completed task that was never resumed carries only errors
\* recorded by steps that do not fail it (a chunk that could not be cut, a failed
\* progress hook, a failed status stream); without any of those it has no error.
C19_CleanRunNoError ==
    \A t \in DOMAIN task :
        (task[t].status = "Completed" /\ resumes = 0)
        => \A i \in DOMAIN task[t].errors : task[t].errors[i].message \in NonFatal

\* a first run that completed although a chunk was not cut and the hook raised
C19_Witness ==
    \E t \in DOMAIN task :
        /\ task[t].status = "Completed"
        /\ resumes = 0
        /\ task[t].processing_completed_at
        /\ Len(task[t].errors) >= 2

\* C20: the errors list of a task is append-only: every step of a stage handler,
\* of the worker, of the stream and of resume_task keeps the errors already
\* recorded, in their order, and at most adds entries at the end.
C20_ErrorsAppendOnly ==
    [][\A t \in DOMAIN task :
          /\ t \in DOMAIN task'
          /\ IsPrefix(task[t].errors, task'[t].errors)]_vars

\* a task resumed after a failure, with errors from the split, from the worker
\* and from the stream in its list
C20_Witness ==
    \E t \in DOMAIN task :
        /\ resumes >= 1
        /\ task[t].status \in {"Pending", "Downloading"}
        /\ Len(task[t].errors) >= 3
        /\ task[t].errors[1].message = "Failed to create chunk"
        /\ \E i \in DOMAIN task[t].errors : task[t].errors[i].message = "stage failed"
        /\ LatestError(task[t]).message = "Status streaming error"

\* C21: within one stage of one run of a task stats.progress never decreases, and
\* whenever the status is not Completed stats.progress is at most 99.9.
C21_StageProgress ==
    [][\A t \in DOMAIN task :
          /\ task'[t].status # "Completed" => task'[t].progress <= AlmostFull
          /\ task'[t].status = task[t].status => task'[t].progress >= task[t].progress]_vars

\* what resume_task(task) must have done when it reaches its `put` or returns
ResumeOutcome(c, t) ==
    IF task[t].status \in {"Failed", "Cancelled", "Paused"}
    THEN /\ call'[c].pc = "r_put"
         /\ call'[c].tid = t
         /\ task'[t].status = "Pending"
    ELSE /\ call'[c] = Returned("resume_task", "false")
         /\ task'[t].status = task[t].status
         /\ task_queue' = task_queue

\* C22: resume(task) returns true, with the status set to Pending and the task put
\* in the queue exactly once, if and only if the task was Failed, Cancelled or
\* Paused; in every other status it returns false and leaves status and queue as
\* they were.
C22_ResumeIff ==
    [][\A c \in Callers :
          /\ \A t \in DOMAIN task : ResumeTask(c, t) => ResumeOutcome(c, t)
          /\ (call[c].pc = "r_put" /\ call'[c] # call[c]) =>
                /\ call'[c] = Returned("resume_task", "true")
                /\ task_queue' = Append(task_queue, call[c].tid)
          /\ (call'[c].op = "resume_task" /\ call'[c].ret = "true" /\ call'[c] # call[c])
                => call[c].pc = "r_put"]_vars

\* a task that was Cancelled or Paused (it has no error) is back in the queue as
\* Pending after resume_task returned true
C22_Witness ==
    \E c \in Callers, t \in DOMAIN task :
        /\ call[c] = Returned("resume_task", "true")
        /\ task[t].status = "Pending"
        /\ task[t].errors = <<>>
        /\ \E i \in DOMAIN task_queue : task_queue[i] = t

\* C23: no observer sees a new status together with an updated_at older than the
\* mutation that set that status.
C23_NoTornRead ==
    response.pc = "built" => response.updated_at >= response.set_at

InQueue(t) == \E i \in DOMAIN task_queue : task_queue[i] = t

StatusOf(t) == IF t \in DOMAIN task THEN task[t].status ELSE "None"

\* every worker thread started is alive while shutdown has not been signalled
WorkersLive ==
    (workers_started /\ ~shutdown_event) =>
        /\ Len(worker) = max_workers
        /\ \A w \in DOMAIN worker : worker[w].pc # "exited"

\* the worker that has failed its task is back at the queue afterwards
WorkerReturns ==
    \A w \in 1..max_workers :
        (w \in DOMAIN worker /\ worker[w].pc \in {"fail", "except", "set_failed"})
            ~> (w \in DOMAIN worker /\ worker[w].pc = "get" /\ worker[w].task = 0)

C25_RefusedEndsFailed ==
    [][\A w \in DOMAIN worker :
          LET t == worker[w].task
          IN  /\ (worker[w].pc = "except" /\ worker'[w] # worker[w]) =>
                    /\ Len(task'[t].errors) = Len(task[t].errors) + 1
                    /\ LatestError(task'[t]).message = "Error processing task"
                    /\ worker'[w].pc = "set_failed"
              /\ (/\ worker[w].pc = "set_failed"
                  /\ worker'[w] # worker[w]
                  /\ task[t].errors # <<>>
                  /\ LatestError(task[t]).message = "Error processing task") =>
                    task'[t].status = "Failed"]_vars

\* the POSTs issued in the window of window_seconds that starts at time t
PostsIn(t) == {i \in DOMAIN posted : t <= posted[i] /\ posted[i] < t + window_seconds}

\* C26: a POST is issued only after an admission was recorded for its attempt, so
\* the POSTs never outnumber the admissions, and no interval of window_seconds holds
\* more than max_requests POSTs.
C26_PostsAdmitted ==
    /\ Len(posted) <= Len(admitted)
    /\ \A t \in 0..MaxTime : Cardinality(PostsIn(t)) <= max_requests

\* the batch a chunk belongs to
wave_of(k) == (k - 1) \div batch_size

\* C27: the chunk operations of one wave are in flight together (when one of them
\* finishes, every chunk of its wave has been started), and no chunk of a later
\* wave starts before every chunk of the earlier waves has finished.
C27_WaveConcurrent ==
    [][\A k \in 1..MaxWaveChunks :
          /\ (waves.op[k] = "running" /\ waves'.op[k] \in {"ok", "failed"}) =>
                \A j \in 1..MaxWaveChunks :
                    wave_of(j) = wave_of(k) => waves'.op[j] \notin {"none", "created"}
                                                \/ j > total_chunks
          /\ (waves.op[k] # "running" /\ waves'.op[k] = "running") =>
                \A j \in 1..MaxWaveChunks :
                    wave_of(j) < wave_of(k) => waves.op[j] \in {"ok", "failed"}]_vars

FailedChunks == {k \in 1..total_chunks : waves.op[k] = "failed"}

\* C28 (as stated): transcribe_all_chunks returns false if and only if at least one
\* chunk of the list failed; in every other case, for every chunk list, it returns true.
C28_FalseIffChunkFailed ==
    waves.pc = "done" => (waves.ret = "false" <=> FailedChunks # {})

\* C28 (amended): it returns false if and only if the chunk list is empty or at
\* least one of its chunks failed, and true in every other case.
C28_FalseIffEmptyOrFailed ==
    waves.pc = "done" =>
        /\ waves.ret \in {"true", "false"}
        /\ waves.ret = "false" <=> (total_chunks = 0 \/ FailedChunks # {})

\* a list of two batches was transcribed and the only failed chunk is in the first
C28_Witness ==
    /\ waves.pc = "done"
    /\ waves.ret = "false"
    /\ total_chunks > batch_size
    /\ FailedChunks = {1}

\* the weights, in tenths, of the stages that precede stage s in pipeline order
preceding_weight(s) ==
    CASE s = "Downloading"  -> 0
      [] s = "Splitting"    -> 2
      [] s = "Transcribing" -> 3
      [] s = "Merging"      -> 9

\* min(99.9, 100 * (preceding weights + (p / 100) * weight(S))), in tenths of a percent
overall_in_pipeline_order(r) ==
    IF r.status = "Completed" THEN FullProgress
    ELSE Min(AlmostFull, preceding_weight(r.status) * 100
                           + (r.progress * stage_weights(r.status)) \div 10)

\* C29: for a task in stage S with stage progress p, calculate_overall_progress is
\* min(99.9, 100 * (weights of the stages before S in pipeline order + p/100 *
\* weight(S))), and 100 when Completed; so it does not drop when the task moves
\* from one stage to the next.
C29_OverallByPipelineOrder ==
    [][\A t \in DOMAIN task :
          /\ task'[t].status \in Weighted \cup {"Completed"} =>
                calculate_overall_progress(task'[t]) = overall_in_pipeline_order(task'[t])
          /\ (task[t].status \in Weighted /\ task'[t].status = NextStage(task[t].status)) =>
                calculate_overall_progress(task'[t]) >= calculate_overall_progress(task[t])]_vars

\* C30: whenever a poll finds the task's status different from the status the
\* previous poll found (the first poll, which finds Pending, included), the stream
\* emits an event at that poll: once the poll has read the status and updated its
\* locals, its should_update is true.
C30_StatusChangeEmits ==
    [][(/\ stream.pc = "read"
        /\ stream'.pc = "calc"
        /\ stream'.current_status # stream.current_status) =>
            should_update(calculate_overall_progress(task[stream.task]),
                          stream'.previous_progress, stream'.current_status,
                          stream'.previous_status)]_vars

\* C31: for all chunk indexes i < j the artifact name of chunk i sorts before the
\* artifact name of chunk j, so the sort of merge handles the chunks in index order.
C31_NamesSortByIndex ==
    index_pair.i < index_pair.j => str_less(chunk_filename(index_pair.i), chunk_filename(index_pair.j))

\* the least n with n * c >= d
LeastCover(d, c) == CHOOSE n \in 0..d : n * c >= d /\ \A m \in 0..(n - 1) : m * c < d

\* C32: for d > 0 and c > 0 the splitter plans max(1, ceil(d/c)) chunks; chunk i
\* runs from i*c to min((i+1)*c, d); consecutive chunks are contiguous, the first
\* starts at 0, the last ends at d, and every chunk has a duration in (0, c].
C32_SplitPlan ==
    split.pc = "done" =>
        LET d == split.total_duration
            c == split.chunk_duration
            ch == split.chunks_info
            n == Len(ch)
        IN  /\ n = Max(1, LeastCover(d, c))
            /\ \A k \in 1..n :
                  /\ ch[k].start_time = (k - 1) * c
                  /\ ch[k].end_time = Min(k * c, d)
                  /\ ch[k].duration > 0 /\ ch[k].duration <= c
            /\ \A k \in 1..(n - 1) : ch[k].end_time = ch[k + 1].start_time
            /\ ch[1].start_time = 0
            /\ ch[n].end_time = d

\* a plan of three chunks whose last chunk is shorter than the others
C32_Witness ==
    /\ split.pc = "done"
    /\ Len(split.chunks_info) = 3
    /\ split.chunks_info[3].duration < split.chunk_duration
    /\ split.chunks_info[3].end_time = split.total_duration

\* worker w is about to leave split_audio with the task t it runs
Splits(w, t) ==
    /\ w \in DOMAIN worker
    /\ worker[w].pc = "run"
    /\ worker[w].stage = "Splitting"
    /\ worker[w].task = t
    /\ worker'[w] # worker[w]

\* C33: with the audio fetched, the duration probed and the store writing, the split
\* stage fails if and only if no chunk could be cut; otherwise it records one error
\* per failed cut and returns exactly the chunks created, and the manifest's
\* total_chunks and chunk_count are the number created.
C33_SplitFailsIffNoChunk ==
    [][\A w \in DOMAIN worker, t \in DOMAIN task :
          Splits(w, t) =>
            LET num_chunks == media[task[t].url]
                created == {i \in 0..(num_chunks - 1) : ChunkPath(t, i) \in store'}
                added == Len(task'[t].errors) - Len(task[t].errors)
            IN  /\ worker'[w].pc = "fail" <=> created = {}
                /\ created # {} =>
                      /\ worker'[w].pc = "set" /\ worker'[w].stage = "Transcribing"
                      /\ added = num_chunks - Cardinality(created)
                      /\ \A k \in 1..added :
                            task'[t].errors[Len(task[t].errors) + k].message
                                = "Failed to create chunk"
                      /\ task'[t].chunks_info = created
                      /\ task'[t].total_chunks = Cardinality(created)
                      /\ task'[t].chunk_count = Cardinality(created)
                      /\ ManifestPath(t) \in store']_vars

\* the split went on after a failed cut: one of two chunks was created and the task
\* is handed to transcription with that chunk and one error
C33_Witness ==
    \E w \in DOMAIN worker :
        /\ worker[w].pc = "set" /\ worker[w].stage = "Transcribing"
        /\ LET r == task[worker[w].task]
           IN  /\ Cardinality(r.chunks_info) = 1
               /\ r.chunk_count = 1
               /\ Len(r.errors) = 1
               /\ r.errors[1].message = "Failed to create chunk"

\* C34: every write to a task record happens while the writer holds the task's
\* lock, inside an atomic(task) block, and updated_at is advanced before the lock
\* is released.
C34_WritesUnderLock ==
    [][/\ task' # task => (held'.pc = "exit" \/ held.pc = "exit")
       /\ (held.pc = "exit" /\ held'.pc = "free") => task'[held.task].updated_at = now]_vars

\* C35: if a task's status becomes Cancelled, its stream emits an event carrying
\* Cancelled and then terminates.
C35_CancelledStreamEnds ==
    (stream.pc \notin {"off", "done"} /\ StatusOf(stream.task) = "Cancelled")
        ~> (stream.pc = "done" /\ EndedWith({"Cancelled"}))

\* the positions of _worker at which it holds a dequeued task and is inside
\* _process_task_async
Executing(w) == worker[w].pc \in {"set", "run", "fail", "except", "set_failed", "stamp"}

TimesQueued(t) == Cardinality({i \in DOMAIN task_queue : task_queue[i] = t})

C37_DuplicateFoundStays ==
    \A u \in Urls : dupseen[u] => Registered(u)

Occurrences(seq, x) == Cardinality({i \in DOMAIN seq : seq[i] = x})

\* C38: a Completed task's word_count is the number of words of its per-chunk
\* texts, each chunk counted once, and confidence_scores holds at most one entry
\* per chunk, also when the task completes after a failure and a resume.
C38_WordsCountedOnce ==
    \A t \in DOMAIN task :
        task[t].status = "Completed" =>
            /\ task[t].word_count = sum_words(task[t].chunks_info)
            /\ \A i \in task[t].chunks_info : Occurrences(task[t].confidence_scores, i) <= 1
            /\ Len(task[t].confidence_scores) <= Cardinality(task[t].chunks_info)

\* C39: once a submit of a url has returned a task (its task was queued), every
\* later submit of the url returns nil and registers nothing, whatever the status
\* of the task, and the task stays in the registry.
C39_SubmittedOnceForGood ==
    [][\A u \in Urls :
          enqueued[u] >= 1 =>
             /\ \A c \in Callers :
                   SubmitLock(c, u) => /\ call'[c] = Returned("add_task", "nil")
                                       /\ tasks' = tasks
                                       /\ task_queue' = task_queue
             /\ \A i \in DOMAIN tasks :
                   task[tasks[i]].url = u => \E j \in DOMAIN tasks' : tasks'[j] = tasks[i]]_vars

\* a url whose task was queued and has finished has been refused, and no submit of
\* it ever met a full queue
C39_Witness ==
    \E u \in Urls, i \in DOMAIN tasks, c \in Callers :
        /\ task[tasks[i]].url = u
        /\ task[tasks[i]].status \in {"Failed", "Completed"}
        /\ enqueued[u] = 1
        /\ dupseen[u]
        /\ ~fullhit[u]
        /\ call[c] = Returned("add_task", "nil")

\* C40: resume never waits for queue capacity and never holds the registry lock
\* while waiting: a resume that has reached its put finds room in the queue.
C40_ResumeNeverWaits ==
    \A c \in Callers :
        (call[c].pc = "r_put" /\ lock = c) => Len(task_queue) < max_queue_size

====
